---- MODULE Spec2Model ----
(***************************************************************************)
(* octoprint.py: the anomaly check over a printer/job telemetry snapshot   *)
(* (check_errors), the line scanner that extracts metadata from a gcode    *)
(* file (analyze_gcode), and the two requests of start_print.              *)
(*                                                                         *)
(* Numbers: temperatures are whole degrees; gcode values are fixed-point   *)
(* thousandths (the text "0.2" is 200).  JSON values that may be null or   *)
(* absent are tagged records, so that Python's None never meets a number   *)
(* in a comparison without the model noticing (a TypeError).               *)
(***************************************************************************)
EXTENDS Integers, Sequences, FiniteSets, TLC

VARIABLES
    printer,        \* response of GET /api/printer: [flags, temperature]
    job,            \* response of GET /api/job: [completion, printTime]
    pc,             \* "poll": check_errors is about to run; "done": it has run
    result,         \* what the last check_errors run printed (or that it raised)
    previous,       \* what the run before the last one printed
    polls,          \* number of check_errors runs so far
    lastChange,     \* what the printer changed since the previous run
    lines,          \* the gcode file, a sequence of lines (each a sequence of characters)
    idx,            \* number of lines the loop of analyze_gcode has taken from the file
    gpc,            \* analyze_gcode: "scan", "done" (printed) or "failed" (exception)
    layer_count,    \* local layer_count
    z_positions,    \* local z_positions
    analysis,       \* the analysis dict
    filepath,       \* start_print: the file named on the command line
    spc,            \* start_print: "select", "start", "report", "done" or "exited"
    requests,       \* start_print: the requests this process has issued, with their outcomes
    stdout,         \* start_print: what the process has printed on standard output
    exit_status     \* start_print: "running", "exit0" (returned) or "exit1" (sys.exit(1))

vars == <<printer, job, pc, result, previous, polls, lastChange,
          lines, idx, gpc, layer_count, z_positions, analysis,
          filepath, spc, requests, stdout, exit_status>>

checkVars == <<printer, job, pc, result, previous, polls, lastChange>>
gcodeVars == <<lines, idx, gpc, layer_count, z_positions, analysis>>
startVars == <<filepath, spc, requests, stdout, exit_status>>

(***************************************************************************)
(* Bounds of the model.                                                    *)
(***************************************************************************)
MaxTools == 2
MaxPolls == 2
MaxLines == 3

(***************************************************************************)
(* JSON values.                                                            *)
(***************************************************************************)
Num(n) == [k |-> "num", v |-> n]
Null == [k |-> "null", v |-> 0]
Absent == [k |-> "absent", v |-> 0]

IsNum(x) == x.k = "num"

\* Python truthiness of a JSON number or null.
Truthy(x) == IsNum(x) /\ x.v # 0

Abs(n) == IF n < 0 THEN -n ELSE n

(***************************************************************************)
(* check_errors                                                            *)
(***************************************************************************)
DiffErrorLimit == 15
DiffWarnLimit == 5
OverheatLimit == 280
StallSeconds == 300

ToolNames == <<"tool0", "tool1", "bed", "chamber", "tool2">>

\* An entry of the errors or warnings list: the rule that wrote it and the
\* values its message is formatted from.
Entry(rule, tool, diff, actual, target) ==
    [rule |-> rule, tool |-> tool, diff |-> diff, actual |-> actual, target |-> target]

ErrorState == Entry("Printer is in error state", "", 0, 0, 0)
ClosedOrError == Entry("Printer connection closed or error", "", 0, 0, 0)
TempOff(tool, diff, actual, target) == Entry("temperature off by", tool, diff, actual, target)
TempFrom(tool, diff) == Entry("temperature from target", tool, diff, 0, 0)
Overheating(tool, actual) == Entry("overheating", tool, 0, actual, 0)
Stalled == Entry("Print may be stalled (no progress after 5 minutes)", "", 0, 0, 0)

EmptyAcc == [errors |-> <<>>, warnings |-> <<>>, raised |-> FALSE]
AppendError(acc, e) == [acc EXCEPT !.errors = Append(@, e)]
AppendWarning(acc, w) == [acc EXCEPT !.warnings = Append(@, w)]
Raise(acc) == [acc EXCEPT !.raised = TRUE]

\* state_flags.get("error") / .get("closedOrError")
FlagChecks(acc, flags) ==
    LET a1 == IF "error" \in flags THEN AppendError(acc, ErrorState) ELSE acc
    IN  IF "closedOrError" \in flags THEN AppendError(a1, ClosedOrError) ELSE a1

\* tool_data.get(key, 0) or 0
OrZero_NoDefault(x) == x
OrZero(x) == IF Truthy(x) THEN x ELSE Num(0)

\* if state_flags.get("printing") and target > 0: ... errors / warnings
DeviationCheck_NoPrintingGuard(acc, name, actual, target, printing) ==
    IF ~IsNum(target) THEN Raise(acc)
    ELSE IF ~(target.v > 0) THEN acc
    ELSE IF ~IsNum(actual) THEN Raise(acc)
    ELSE LET diff == Abs(actual.v - target.v)
         IN  IF diff > DiffErrorLimit
               THEN AppendError(acc, TempOff(name, diff, actual.v, target.v))
             ELSE IF diff > DiffWarnLimit
               THEN AppendWarning(acc, TempFrom(name, diff))
             ELSE acc
DeviationCheck(acc, name, actual, target, printing) ==
    IF ~printing THEN acc
    ELSE IF ~IsNum(target) THEN Raise(acc)
    ELSE IF ~(target.v > 0) THEN acc
    ELSE IF ~IsNum(actual) THEN Raise(acc)
    ELSE LET diff == Abs(actual.v - target.v)
         IN  IF diff > DiffErrorLimit
               THEN AppendError(acc, TempOff(name, diff, actual.v, target.v))
             ELSE IF diff > DiffWarnLimit
               THEN AppendWarning(acc, TempFrom(name, diff))
             ELSE acc

\* if actual > 280: errors.append(overheating)
OverheatCheck_Elif(acc, before, name, actual) ==
    IF acc.raised THEN acc
    ELSE IF acc # before THEN acc
    ELSE IF ~IsNum(actual) THEN Raise(acc)
    ELSE IF actual.v > OverheatLimit THEN AppendError(acc, Overheating(name, actual.v))
    ELSE acc
OverheatCheck(acc, before, name, actual) ==
    IF acc.raised THEN acc
    ELSE IF ~IsNum(actual) THEN Raise(acc)
    ELSE IF actual.v > OverheatLimit THEN AppendError(acc, Overheating(name, actual.v))
    ELSE acc

\* The body of the loop over temp.items(), for one tool.
ToolChecks_OverheatFirst(acc, tool, flags) ==
    IF acc.raised \/ tool.actual.k = "absent" THEN acc
    ELSE LET actual == OrZero(tool.actual)
             target == OrZero(tool.target)
             a1 == OverheatCheck(acc, acc, tool.name, actual)
         IN  IF a1.raised THEN a1
             ELSE DeviationCheck(a1, tool.name, actual, target, "printing" \in flags)
ToolChecks(acc, tool, flags) ==
    IF acc.raised \/ tool.actual.k = "absent" THEN acc
    ELSE LET actual == OrZero(tool.actual)
             target == OrZero(tool.target)
             a1 == DeviationCheck(acc, tool.name, actual, target, "printing" \in flags)
         IN  OverheatCheck(a1, acc, tool.name, actual)

RECURSIVE TemperatureChecks(_, _, _, _)
TemperatureChecks(acc, temp, i, flags) ==
    IF i > Len(temp) THEN acc
    ELSE TemperatureChecks(ToolChecks(acc, temp[i], flags), temp, i + 1, flags)

\* if state_flags.get("printing"): progress == 0 and print_time and print_time > 300
StallCheck_AtThreshold(acc, flags, j) ==
    IF acc.raised \/ "printing" \notin flags THEN acc
    ELSE IF ~(IsNum(j.completion) /\ j.completion.v = 0) THEN acc
    ELSE IF ~Truthy(j.printTime) THEN acc
    ELSE IF j.printTime.v >= StallSeconds THEN AppendWarning(acc, Stalled)
    ELSE acc
StallCheck(acc, flags, j) ==
    IF acc.raised \/ "printing" \notin flags THEN acc
    ELSE IF ~(IsNum(j.completion) /\ j.completion.v = 0) THEN acc
    ELSE IF ~Truthy(j.printTime) THEN acc
    ELSE IF j.printTime.v > StallSeconds THEN AppendWarning(acc, Stalled)
    ELSE acc

\* "error" if errors else "warning" if warnings else "ok"
Status_IgnoreWarnings(errors, warnings) ==
    IF errors # <<>> THEN "error" ELSE "ok"
Status_WarningFirst(errors, warnings) ==
    IF warnings # <<>> THEN "warning"
    ELSE IF errors # <<>> THEN "error"
    ELSE "ok"
Status(errors, warnings) ==
    IF errors # <<>> THEN "error"
    ELSE IF warnings # <<>> THEN "warning"
    ELSE "ok"

NoResult == [raised |-> FALSE, status |-> "none", errors |-> <<>>, warnings |-> <<>>]

check_errors(p, j) ==
    LET a1 == FlagChecks(EmptyAcc, p.flags)
        a2 == TemperatureChecks(a1, p.temperature, 1, p.flags)
        a3 == StallCheck(a2, p.flags, j)
    IN  IF a3.raised
          THEN [raised |-> TRUE, status |-> "none", errors |-> <<>>, warnings |-> <<>>]
          ELSE [raised |-> FALSE, status |-> Status(a3.errors, a3.warnings),
                errors |-> a3.errors, warnings |-> a3.warnings]

(***************************************************************************)
(* Snapshots the printer can report.                                       *)
(***************************************************************************)
FlagNames == {"printing", "error", "closedOrError"}

\* <<actual, target>> readings of one tool.
Readings ==
    { <<Absent, Null>>,            \* an entry without 'actual'
      <<Null, Num(200)>>,          \* actual reported as null
      <<Num(195), Num(200)>>,      \* diff 5
      <<Num(185), Num(200)>>,      \* diff 15
      <<Num(216), Num(200)>>,      \* diff 16
      <<Num(280), Null>>,          \* at the ceiling, no target
      <<Num(281), Num(0)>>,        \* over the ceiling, heater off
      <<Num(290), Num(300)>>,      \* diff 10, over the ceiling
      <<Num(281), Num(200)>> }     \* diff 81, over the ceiling

HotReadings == { r \in Readings : IsNum(r[1]) /\ r[1].v > OverheatLimit }

Tool(i, r) == [name |-> ToolNames[i], actual |-> r[1], target |-> r[2]]

Temperatures ==
    UNION { { [i \in 1..n |-> Tool(i, f[i])] : f \in [1..n -> Readings] } : n \in 0..MaxTools }

\* <<completion, printTime>>
Progresses ==
    { <<Null, Null>>, <<Num(0), Null>>, <<Num(0), Num(0)>>,
      <<Num(0), Num(300)>>, <<Num(0), Num(301)>>, <<Num(50), Num(301)>> }

InitCheck ==
    /\ \E f \in SUBSET FlagNames, t \in Temperatures :
          printer = [flags |-> f, temperature |-> t]
    /\ \E pr \in Progresses : job = [completion |-> pr[1], printTime |-> pr[2]]
    /\ pc = "poll"
    /\ result = NoResult
    /\ previous = NoResult
    /\ polls = 0
    /\ lastChange = "none"

\* One run of check_errors on the current printer and job state.
CheckErrors ==
    /\ pc = "poll"
    /\ polls < MaxPolls
    /\ result' = check_errors(printer, job)
    /\ previous' = result
    /\ polls' = polls + 1
    /\ pc' = "done"
    /\ UNCHANGED <<printer, job, lastChange>>
    /\ UNCHANGED gcodeVars
    /\ UNCHANGED startVars

\* Between two runs the printer enters the error state.
SetErrorFlag ==
    /\ pc = "done"
    /\ "error" \notin printer.flags
    /\ printer' = [printer EXCEPT !.flags = @ \cup {"error"}]
    /\ lastChange' = "error"
    /\ pc' = "poll"
    /\ UNCHANGED <<job, result, previous, polls>>
    /\ UNCHANGED gcodeVars
    /\ UNCHANGED startVars

\* Between two runs the connection closes.
SetClosedOrError ==
    /\ pc = "done"
    /\ "closedOrError" \notin printer.flags
    /\ printer' = [printer EXCEPT !.flags = @ \cup {"closedOrError"}]
    /\ lastChange' = "closedOrError"
    /\ pc' = "poll"
    /\ UNCHANGED <<job, result, previous, polls>>
    /\ UNCHANGED gcodeVars
    /\ UNCHANGED startVars

\* Between two runs a further tool appears, reading above the ceiling.
AddHotTool ==
    /\ pc = "done"
    /\ Len(printer.temperature) < MaxTools
    /\ \E r \in HotReadings :
          printer' = [printer EXCEPT !.temperature =
                         Append(@, Tool(Len(printer.temperature) + 1, r))]
    /\ lastChange' = "hot_tool"
    /\ pc' = "poll"
    /\ UNCHANGED <<job, result, previous, polls>>
    /\ UNCHANGED gcodeVars
    /\ UNCHANGED startVars

\* No start_print process.
StartIdle ==
    /\ filepath = ""
    /\ spc = "idle"
    /\ requests = <<>>
    /\ stdout = <<>>
    /\ exit_status = "running"

GcodeIdle ==
    /\ lines = <<>>
    /\ idx = 0
    /\ gpc = "idle"
    /\ layer_count = 0
    /\ z_positions = {}
    /\ analysis = [layers |-> 0]

Init == InitCheck /\ GcodeIdle /\ StartIdle

Next ==
    \/ CheckErrors
    \/ SetErrorFlag
    \/ SetClosedOrError
    \/ AddHotTool

Spec == Init /\ [][Next]_vars

(***************************************************************************)
(* Text: a line is a sequence of one-character strings.                    *)
(***************************************************************************)
Digits == {"0", "1", "2", "3", "4", "5", "6", "7", "8", "9"}
DigitChars == <<"0", "1", "2", "3", "4", "5", "6", "7", "8", "9">>
DigitVal(c) == (CHOOSE i \in DOMAIN DigitChars : DigitChars[i] = c) - 1

NumClass == Digits \cup {"."}          \* [\d.]
IntClass == Digits                     \* [\d]
SignedClass == Digits \cup {".", "-"}  \* [\d.-]
Whitespace == {" ", "\t", "\n", "\r"}

UpperChars == <<"A", "B", "C", "D", "E", "F", "G", "H", "I", "J", "K", "L", "M",
                "N", "O", "P", "Q", "R", "S", "T", "U", "V", "W", "X", "Y", "Z">>
LowerChars == <<"a", "b", "c", "d", "e", "f", "g", "h", "i", "j", "k", "l", "m",
                "n", "o", "p", "q", "r", "s", "t", "u", "v", "w", "x", "y", "z">>

\* str.lower()
LowerChar(c) ==
    IF \E i \in DOMAIN UpperChars : UpperChars[i] = c
      THEN LowerChars[CHOOSE i \in DOMAIN UpperChars : UpperChars[i] = c]
      ELSE c
Lower(s) == [i \in DOMAIN s |-> LowerChar(s[i])]

\* str.strip()
Strip(s) ==
    LET keep == { i \in DOMAIN s : s[i] \notin Whitespace }
    IN  IF keep = {} THEN <<>>
        ELSE LET first == CHOOSE i \in keep : \A j \in keep : i <= j
                 last == CHOOSE i \in keep : \A j \in keep : j <= i
             IN  SubSeq(s, first, last)

MatchesAt(s, sub, i) ==
    /\ i >= 1
    /\ i + Len(sub) - 1 <= Len(s)
    /\ SubSeq(s, i, i + Len(sub) - 1) = sub

\* str.startswith(sub)
StartsWith(s, sub) == MatchesAt(s, sub, 1)

\* sub in s
Contains(s, sub) == \E i \in 1..(Len(s) + 1) : MatchesAt(s, sub, i)

Least(S) == CHOOSE i \in S : \A j \in S : i <= j

\* The end of the longest run of characters of a class that starts at i.
RunEnd(s, i, class) ==
    CHOOSE j \in (i - 1)..Len(s) :
       /\ \A k \in i..j : s[k] \in class
       /\ (j = Len(s) \/ s[j + 1] \notin class)

NoMatch == [found |-> FALSE, group |-> <<>>]
Match(g) == [found |-> TRUE, group |-> g]

\* re.search(prefix + '([class]+)', s): the leftmost place where the prefix is
\* directly followed by a character of the class; group 1 is the longest run.
SearchAfter(s, prefix, class) ==
    LET at == { i \in DOMAIN s :
                  /\ MatchesAt(s, prefix, i)
                  /\ i + Len(prefix) <= Len(s)
                  /\ s[i + Len(prefix)] \in class }
    IN  IF at = {} THEN NoMatch
        ELSE LET b == Least(at) + Len(prefix)
             IN  Match(SubSeq(s, b, RunEnd(s, b, class)))

\* re.search('([class]+)' + c, s), c not in the class: the leftmost run of the
\* class that is directly followed by c.
SearchBefore(s, class, c) ==
    LET at == { i \in DOMAIN s :
                  /\ s[i] \in class
                  /\ RunEnd(s, i, class) < Len(s)
                  /\ s[RunEnd(s, i, class) + 1] = c }
    IN  IF at = {} THEN NoMatch
        ELSE Match(SubSeq(s, Least(at), RunEnd(s, Least(at), class)))

\* re.search(c + '\s*([class]+)', s)
SearchAfterSpaces(s, c, class) ==
    LET at == { i \in DOMAIN s :
                  /\ s[i] = c
                  /\ RunEnd(s, i + 1, Whitespace) < Len(s)
                  /\ s[RunEnd(s, i + 1, Whitespace) + 1] \in class }
    IN  IF at = {} THEN NoMatch
        ELSE LET b == RunEnd(s, Least(at) + 1, Whitespace) + 1
             IN  Match(SubSeq(s, b, RunEnd(s, b, class)))

\* s.split(':')[1]: the text between the first and the second colon; without
\* a colon the list has one element and the index raises IndexError.
Colons(s) == { i \in DOMAIN s : s[i] = ":" }
HasSecondField(s) == Colons(s) # {}
SecondField(s) ==
    LET c1 == Least(Colons(s))
        rest == { i \in Colons(s) : i > c1 }
    IN  SubSeq(s, c1 + 1, IF rest = {} THEN Len(s) ELSE Least(rest) - 1)

RECURSIVE DigitsVal(_)
DigitsVal(ds) ==
    IF ds = <<>> THEN 0
    ELSE 10 * DigitsVal(SubSeq(ds, 1, Len(ds) - 1)) + DigitVal(ds[Len(ds)])

CountChar(tok, c) == Cardinality({ i \in DOMAIN tok : tok[i] = c })

\* float(tok) succeeds on a token of digits, dots and minus signs when it has
\* a digit, at most one dot, and a minus sign only in front; else ValueError.
FloatOk(tok) ==
    /\ \E i \in DOMAIN tok : tok[i] \in Digits
    /\ CountChar(tok, ".") <= 1
    /\ \A i \in DOMAIN tok : tok[i] = "-" => i = 1

\* float(tok), in thousandths (digits after the third decimal are dropped).
FloatVal(tok) ==
    LET neg == tok # <<>> /\ tok[1] = "-"
        body == IF neg THEN SubSeq(tok, 2, Len(tok)) ELSE tok
        dots == { i \in DOMAIN body : body[i] = "." }
        dot == IF dots = {} THEN Len(body) + 1 ELSE Least(dots)
        whole == SubSeq(body, 1, dot - 1)
        frac == SubSeq(SubSeq(body, dot + 1, Len(body)) \o <<"0", "0", "0">>, 1, 3)
        mag == 1000 * DigitsVal(whole) + DigitsVal(frac)
    IN  IF neg THEN -mag ELSE mag

\* int(tok) on a token of digits.
IntVal(tok) == DigitsVal(tok)

(***************************************************************************)
(* analyze_gcode                                                           *)
(***************************************************************************)
NewAnalysis ==
    [ layers |-> 0,
      estimated_time |-> Null,
      filament_length |-> Null,
      filament_weight |-> Null,
      bed_temp |-> Null,
      hotend_temp |-> Null,
      first_layer_height |-> Null,
      layer_height |-> Null,
      bounding_box |-> [min |-> <<Null, Null, Null>>, max |-> <<Null, Null, Null>>] ]

\* The lines a file is made of, each as the loop reads it (newline included).
Vocabulary ==
    {
      \* G1 Z0.2 F600
      <<"G", "1", " ", "Z", "0", ".", "2", " ", "F", "6", "0", "0", "\n">>,
      \* G1 Z0.4
      <<"G", "1", " ", "Z", "0", ".", "4", "\n">>,
      \* G0 Z0.20
      <<"G", "0", " ", "Z", "0", ".", "2", "0", "\n">>,
      \* M140 S60
      <<"M", "1", "4", "0", " ", "S", "6", "0", "\n">>,
      \* M190 S65
      <<"M", "1", "9", "0", " ", "S", "6", "5", "\n">>,
      \* M104 S200
      <<"M", "1", "0", "4", " ", "S", "2", "0", "0", "\n">>,
      \* M109 S210
      <<"M", "1", "0", "9", " ", "S", "2", "1", "0", "\n">>,
      \* ;LAYER:0
      <<";", "L", "A", "Y", "E", "R", ":", "0", "\n">>,
      \* ;LAYER_CHANGE
      <<";", "L", "A", "Y", "E", "R", "_", "C", "H", "A", "N", "G", "E", "\n">>,
      \* ;TIME:3600
      <<";", "T", "I", "M", "E", ":", "3", "6", "0", "0", "\n">>,
      \* ;TIME:60
      <<";", "T", "I", "M", "E", ":", "6", "0", "\n">>,
      \* ;Filament used: 1.5m
      <<";", "F", "i", "l", "a", "m", "e", "n", "t", " ", "u", "s", "e", "d", ":", " ", "1", ".", "5", "m", "\n">>,
      \* ; filament used [mm] = 2500
      <<";", " ", "f", "i", "l", "a", "m", "e", "n", "t", " ", "u", "s", "e", "d", " ", "[", "m", "m", "]", " ", "=", " ", "2", "5", "0", "0", "\n">>,
      \* ;MINX:-5
      <<";", "M", "I", "N", "X", ":", "-", "5", "\n">>,
      \* ; MIN_X: 3
      <<";", " ", "M", "I", "N", "_", "X", ":", " ", "3", "\n">>,
      \* M140 S1.2.3
      <<"M", "1", "4", "0", " ", "S", "1", ".", "2", ".", "3", "\n">>,
      \* G1 Z.
      <<"G", "1", " ", "Z", ".", "\n">>,
      \* ; min_x = 2
      <<";", " ", "m", "i", "n", "_", "x", " ", "=", " ", "2", "\n">> }

GcodeFiles == UNION { [1..n -> Vocabulary] : n \in 0..MaxLines }

(***************************************************************************)
(* What the tests, searches and number conversions of the loop body find   *)
(* on one (stripped) line.  A field is absent ("none"), a number, or text   *)
(* on which the conversion raises ("raises").                              *)
(***************************************************************************)
NoField == [k |-> "none", v |-> 0]
Raises == [k |-> "raises", v |-> 0]

\* float(m.group(1)) of a search m made when the line passed the rule's test
FloatField(applies, m) ==
    IF ~applies \/ ~m.found THEN NoField
    ELSE IF ~FloatOk(m.group) THEN Raises
    ELSE Num(FloatVal(m.group))

\* int(m.group(1)), the group being digits only
IntField(applies, m) ==
    IF ~applies \/ ~m.found THEN NoField ELSE Num(IntVal(m.group))

\* ';LAYER:' in line or 'LAYER_CHANGE' in line
IsLayerMarker(line) ==
    \/ Contains(line, <<";", "L", "A", "Y", "E", "R", ":">>)
    \/ Contains(line, <<"L", "A", "Y", "E", "R", "_", "C", "H", "A", "N", "G", "E">>)

\* line.startswith('G0') or line.startswith('G1')
IsMove(line) == StartsWith(line, <<"G", "0">>) \/ StartsWith(line, <<"G", "1">>)

\* line.startswith('M140') or line.startswith('M190')
IsBedTemp(line) ==
    StartsWith(line, <<"M", "1", "4", "0">>) \/ StartsWith(line, <<"M", "1", "9", "0">>)

\* line.startswith('M104') or line.startswith('M109')
IsHotendTemp(line) ==
    StartsWith(line, <<"M", "1", "0", "4">>) \/ StartsWith(line, <<"M", "1", "0", "9">>)

IsTime(line) == Contains(line, <<";", "T", "I", "M", "E", ":">>)

IsFilamentM(line) ==
    Contains(line, <<";", "F", "i", "l", "a", "m", "e", "n", "t", " ",
                     "u", "s", "e", "d", ":">>)

IsFilamentMm(line) ==
    Contains(Lower(line), <<"f", "i", "l", "a", "m", "e", "n", "t", " ",
                            "u", "s", "e", "d", " ", "[", "m", "m", "]">>)

\* ';MINX:' in line or '; min_x' in line.lower()
IsMinX(line) ==
    \/ Contains(line, <<";", "M", "I", "N", "X", ":">>)
    \/ Contains(Lower(line), <<";", " ", "m", "i", "n", "_", "x">>)

\* float(re.search(r'([\d.-]+)', line.split(':')[1]).group(1))
MinXField(line) ==
    IF ~IsMinX(line) THEN NoField
    ELSE IF ~HasSecondField(line) THEN Raises
    ELSE FloatField(TRUE, SearchAfter(SecondField(line), <<>>, SignedClass))

Read(line) ==
    [ layer |-> IsLayerMarker(line),
      z |-> FloatField(IsMove(line), SearchAfter(line, <<"Z">>, NumClass)),
      bed |-> FloatField(IsBedTemp(line), SearchAfter(line, <<"S">>, NumClass)),
      hotend |-> FloatField(IsHotendTemp(line), SearchAfter(line, <<"S">>, NumClass)),
      time |-> IntField(IsTime(line),
                        SearchAfter(line, <<";", "T", "I", "M", "E", ":">>, IntClass)),
      filament_m |-> FloatField(IsFilamentM(line), SearchBefore(line, NumClass, "m")),
      filament_mm |-> FloatField(IsFilamentMm(line), SearchAfterSpaces(line, "=", NumClass)),
      min_x |-> MinXField(line) ]

\* line = line.strip(), then the tests of the loop body, for every line of the vocabulary
LineReadings == [raw \in Vocabulary |-> Read(Strip(raw))]

(***************************************************************************)
(* The rules of the loop body, in their order; st is the state of the scan *)
(* (layer_count, z_positions, analysis, and whether an exception has ended *)
(* it), r what was read on the line.                                       *)
(***************************************************************************)
Fail(st) == [st EXCEPT !.failed = TRUE]

\* layer_count += 1
LayerRule(st, r) ==
    IF r.layer THEN [st EXCEPT !.layer_count = @ + 1] ELSE st

\* if z_match: z_positions.add(float(z_match.group(1)))
ZRule(st, r) ==
    IF st.failed \/ r.z.k = "none" THEN st
    ELSE IF r.z.k = "raises" THEN Fail(st)
    ELSE [st EXCEPT !.z_positions = @ \cup {r.z.v}]

\* if temp_match and analysis[field] is None: analysis[field] = float(temp_match.group(1))
SetTemp_Overwrite(st, f, field) ==
    IF st.failed \/ f.k = "none" THEN st
    ELSE IF f.k = "raises" THEN Fail(st)
    ELSE [st EXCEPT !.analysis[field] = Num(f.v)]
SetTemp(st, f, field) ==
    IF st.failed \/ f.k = "none" \/ st.analysis[field] # Null THEN st
    ELSE IF f.k = "raises" THEN Fail(st)
    ELSE [st EXCEPT !.analysis[field] = Num(f.v)]

BedRule(st, r) == SetTemp(st, r.bed, "bed_temp")
HotendRule(st, r) == SetTemp(st, r.hotend, "hotend_temp")

\* if time_match: analysis["estimated_time"] = int(time_match.group(1))
TimeRule(st, r) ==
    IF st.failed \/ r.time.k = "none" THEN st
    ELSE [st EXCEPT !.analysis.estimated_time = Num(r.time.v)]

\* if filament_match: analysis["filament_length"] = float(filament_match.group(1))
FilamentMRule(st, r) ==
    IF st.failed \/ r.filament_m.k = "none" THEN st
    ELSE IF r.filament_m.k = "raises" THEN Fail(st)
    ELSE [st EXCEPT !.analysis.filament_length = Num(r.filament_m.v)]

\* if filament_match: analysis["filament_length"] = float(filament_match.group(1)) / 1000
FilamentMmRule(st, r) ==
    IF st.failed \/ r.filament_mm.k = "none" THEN st
    ELSE IF r.filament_mm.k = "raises" THEN Fail(st)
    ELSE [st EXCEPT !.analysis.filament_length = Num(r.filament_mm.v \div 1000)]

\* if match: analysis["bounding_box"]["min"][0] = float(match.group(1))
MinXRule(st, r) ==
    IF st.failed \/ r.min_x.k = "none" THEN st
    ELSE IF r.min_x.k = "raises" THEN Fail(st)
    ELSE [st EXCEPT !.analysis.bounding_box.min[1] = Num(r.min_x.v)]

\* The body of the loop over the lines of the file, for one line.
ScanLine(st, raw) ==
    LET r == LineReadings[raw]
        s1 == LayerRule(st, r)
        s2 == ZRule(s1, r)
        s3 == BedRule(s2, r)
        s4 == HotendRule(s3, r)
        s5 == TimeRule(s4, r)
        s6 == FilamentMRule(s5, r)
        s7 == FilamentMmRule(s6, r)
    IN  MinXRule(s7, r)

\* if layer_count == 0 and z_positions: len(z_positions) else layer_count
Layers_AlwaysZ(count, zs) ==
    IF zs # {} THEN Cardinality(zs) ELSE count
Layers(count, zs) ==
    IF count = 0 /\ zs # {} THEN Cardinality(zs) ELSE count

NoPrinter == [flags |-> {}, temperature |-> <<>>]
NoJob == [completion |-> Null, printTime |-> Null]

CheckIdle ==
    /\ printer = NoPrinter
    /\ job = NoJob
    /\ pc = "idle"
    /\ result = NoResult
    /\ previous = NoResult
    /\ polls = 0
    /\ lastChange = "none"

InitGcode ==
    /\ lines \in GcodeFiles
    /\ idx = 0
    /\ gpc = "scan"
    /\ layer_count = 0
    /\ z_positions = {}
    /\ analysis = NewAnalysis
    /\ CheckIdle
    /\ StartIdle

\* One turn of "for line in f".
ProcessLine ==
    /\ gpc = "scan"
    /\ idx < Len(lines)
    /\ LET st == ScanLine([layer_count |-> layer_count, z_positions |-> z_positions,
                           analysis |-> analysis, failed |-> FALSE], lines[idx + 1])
       IN  /\ layer_count' = st.layer_count
           /\ z_positions' = st.z_positions
           /\ analysis' = st.analysis
           /\ gpc' = IF st.failed THEN "failed" ELSE "scan"
    /\ idx' = idx + 1
    /\ UNCHANGED lines
    /\ UNCHANGED checkVars
    /\ UNCHANGED startVars

\* The end of the file: the layer count is settled and the analysis printed.
Finish ==
    /\ gpc = "scan"
    /\ idx = Len(lines)
    /\ analysis' = [analysis EXCEPT !.layers = Layers(layer_count, z_positions)]
    /\ gpc' = "done"
    /\ UNCHANGED <<lines, idx, layer_count, z_positions>>
    /\ UNCHANGED checkVars
    /\ UNCHANGED startVars

NextGcode == ProcessLine \/ Finish

SpecGcode == InitGcode /\ [][NextGcode]_vars

(***************************************************************************)
(* start_print and make_request                                            *)
(***************************************************************************)
\* Files the command line may name.
Files == {"benchy.gcode", "cube.gcode", "bracket.gcode", "parts/gear.gcode", "lid.gcode"}

\* How one call of make_request can go:
\*   no_config         load_config finds no config.json and exits before any request
\*   connection_error  requests.request raises ConnectionError
\*   timeout           requests.request raises Timeout (timeout=10)
\*   http_error        raise_for_status raises HTTPError (404, 409, 500, ...)
\*   bad_json          the body is not empty and response.json() raises
\*   ok_empty          2xx with an empty body: returns {}
\*   ok_json           2xx with a JSON body: returns it
Outcomes ==
    {"no_config", "connection_error", "timeout", "http_error", "bad_json", "ok_empty", "ok_json"}

\* make_request returns to its caller; in every other case the process ends.
Succeeded(outcome) == outcome \in {"ok_empty", "ok_json"}

\* The request reached requests.request (load_config did not exit first).
Issued(outcome) == outcome # "no_config"

Request(method, endpoint, command, outcome) ==
    [method |-> method, endpoint |-> endpoint, command |-> command, outcome |-> outcome]

\* f"/api/files/local/{filepath}"
FileEndpoint(f) == <<"/api/files/local/", f>>
JobEndpoint == <<"/api/job">>

\* The position after a make_request call: the caller's next statement, or
\* the end of the process (except ...: sys.exit(1), or load_config's exit).
AfterRequest_NoExit(outcome, next) == next
AfterRequest(outcome, next) == IF Succeeded(outcome) THEN next ELSE "exited"

\* One call of make_request made at position `at`.
MakeRequest(at, method, endpoint, command, next) ==
    /\ spc = at
    /\ \E outcome \in Outcomes :
          /\ requests' = IF Issued(outcome)
                           THEN Append(requests, Request(method, endpoint, command, outcome))
                           ELSE requests
          /\ spc' = AfterRequest(outcome, next)
          /\ exit_status' = IF spc' = "exited" THEN "exit1" ELSE exit_status
    /\ UNCHANGED <<filepath, stdout>>

\* make_request("POST", f"/api/files/local/{filepath}", json={"command": "select"})
SelectFile ==
    /\ MakeRequest("select", "POST", FileEndpoint(filepath), "select", "start")
    /\ UNCHANGED checkVars
    /\ UNCHANGED gcodeVars

\* make_request("POST", "/api/job", json={"command": "start"})
StartJob ==
    /\ MakeRequest("start", "POST", JobEndpoint, "start", "report")
    /\ UNCHANGED checkVars
    /\ UNCHANGED gcodeVars

Started(f) == <<"Started printing ", f>>

\* print(f"Started printing {filepath}"), and the function returns
ReportStarted ==
    /\ spc = "report"
    /\ stdout' = Append(stdout, Started(filepath))
    /\ spc' = "done"
    /\ exit_status' = "exit0"
    /\ UNCHANGED <<filepath, requests>>
    /\ UNCHANGED checkVars
    /\ UNCHANGED gcodeVars

InitStart ==
    /\ filepath \in Files
    /\ spc = "select"
    /\ requests = <<>>
    /\ stdout = <<>>
    /\ exit_status = "running"
    /\ CheckIdle
    /\ lines = <<>>
    /\ idx = 0
    /\ gpc = "idle"
    /\ layer_count = 0
    /\ z_positions = {}
    /\ analysis = NewAnalysis

NextStart == SelectFile \/ StartJob \/ ReportStarted

SpecStart == InitStart /\ [][NextStart]_vars

(***************************************************************************)
(* Properties of analyze_gcode.                                            *)
(***************************************************************************)
\* What was read on the i-th line of the file.
ReadingAt(i) == LineReadings[lines[i]]

\* The number read for a field on the earliest of the first n lines that
\* carries one, null when none does.
FirstRead(field, n) ==
    LET at == { i \in 1..n : ReadingAt(i)[field].k = "num" }
    IN  IF at = {} THEN Null ELSE Num(ReadingAt(Least(at))[field].v)

\* The filament length, in metres, a line states in either style.
FilamentOf(r) ==
    IF r.filament_m.k = "num" THEN Num(r.filament_m.v)
    ELSE IF r.filament_mm.k = "num" THEN Num(r.filament_mm.v \div 1000)
    ELSE Null

FirstFilament ==
    LET at == { i \in DOMAIN lines : FilamentOf(ReadingAt(i)) # Null }
    IN  IF at = {} THEN Null ELSE FilamentOf(ReadingAt(Least(at)))

MarkerLines == { i \in DOMAIN lines : ReadingAt(i).layer }
ZHeights == { ReadingAt(i).z.v : i \in { j \in DOMAIN lines : ReadingAt(j).z.k = "num" } }

\* C4 as stated: the scan never ends in an exception, whatever the lines.
C4_NeverFails == gpc # "failed"

\* C5: when the scan is complete, layers is the number of layer-marker lines
\* if there is at least one, whatever the Z heights, and otherwise the number
\* of distinct Z heights on move lines (0 when there are none).
C5_LayerTieBreak ==
    gpc = "done" =>
      analysis.layers = (IF Cardinality(MarkerLines) > 0
                           THEN Cardinality(MarkerLines)
                           ELSE Cardinality(ZHeights))

\* One marker line and two distinct Z heights: layers is 1.
C5_Witness ==
    /\ gpc = "done"
    /\ Cardinality(MarkerLines) = 1
    /\ Cardinality(ZHeights) = 2
    /\ analysis.layers = 1

\* C6: at every point of the scan bed_temp is the S value of the earliest
\* M140/M190 line taken so far that carries a parseable S field (null when
\* there is none), and hotend_temp likewise for M104/M109 lines; a later
\* line never replaces either, and neither field touches the other.
C6_TempsFirstWriteWins ==
    /\ analysis.bed_temp = FirstRead("bed", idx)
    /\ analysis.hotend_temp = FirstRead("hotend", idx)

\* A complete scan of two bed lines with different S values and a hotend
\* line: bed_temp is the first bed value, hotend_temp the hotend value.
C6_Witness ==
    /\ gpc = "done"
    /\ \E i, j \in DOMAIN lines :
          /\ i < j
          /\ ReadingAt(i).bed.k = "num" /\ ReadingAt(j).bed.k = "num"
          /\ ReadingAt(i).bed.v # ReadingAt(j).bed.v
          /\ analysis.bed_temp = Num(ReadingAt(i).bed.v)
    /\ \E i \in DOMAIN lines : ReadingAt(i).hotend.k = "num"
    /\ analysis.hotend_temp # Null

\* C7 as stated: when the scan is complete, estimated_time is the value of the
\* first ';TIME:' match, filament_length the first filament match of either
\* style, and bounding_box.min[0] the first minimum-X match.
C7_AnnotationsFirstWriteWins ==
    gpc = "done" =>
      /\ analysis.estimated_time = FirstRead("time", Len(lines))
      /\ analysis.filament_length = FirstFilament
      /\ analysis.bounding_box.min[1] = FirstRead("min_x", Len(lines))

(***************************************************************************)
(* Properties of check_errors.                                             *)
(***************************************************************************)
Ran == pc = "done" /\ ~result.raised

Printing == "printing" \in printer.flags

\* The number a reading stands for once null has been read as 0.
Value(x) == IF IsNum(x) THEN x.v ELSE 0

\* The tools of the snapshot that report an 'actual' reading.
ReportingTools == { i \in DOMAIN printer.temperature : printer.temperature[i].actual.k # "absent" }

CountOf(seq, rule, tool) ==
    Cardinality({ i \in DOMAIN seq : seq[i].rule = rule /\ seq[i].tool = tool })

\* C1: the status of every verdict is "error" exactly when errors is
\* non-empty, "warning" exactly when errors is empty and warnings is not, and
\* "ok" exactly when both lists are empty.
C1_StatusMatchesLists ==
    Ran =>
      /\ result.status \in {"ok", "warning", "error"}
      /\ (result.status = "error") <=> (result.errors # <<>>)
      /\ (result.status = "warning") <=> (result.errors = <<>> /\ result.warnings # <<>>)
      /\ (result.status = "ok") <=> (result.errors = <<>> /\ result.warnings = <<>>)

\* A verdict with both an error and a warning in it.
C1_Witness ==
    Ran /\ result.errors # <<>> /\ result.warnings # <<>> /\ result.status = "error"

\* C2: every run of the check ends with a verdict (it never raises), whatever
\* the flags, the tool readings (null readings included) and the progress; on
\* the snapshot with no tools and no flags the verdict is ok with both lists
\* empty.
C2_Total ==
    pc = "done" =>
      /\ ~result.raised
      /\ result.status \in {"ok", "warning", "error"}
      /\ (printer.flags = {} /\ printer.temperature = <<>>) =>
            (result.status = "ok" /\ result.errors = <<>> /\ result.warnings = <<>>)

\* The check has run while printing on a tool whose target is null, with no
\* completion and no elapsed time reported.
C2_Witness ==
    /\ Ran /\ Printing
    /\ \E i \in DOMAIN printer.temperature : printer.temperature[i].target = Null
    /\ job.completion = Null /\ job.printTime = Null

\* C3: when the previous verdict was a warning and the printer has since
\* gained an error condition (error flag, closedOrError flag, or a further
\* tool above the ceiling), the next verdict is an error.
C3_MonotonicSeverity ==
    (Ran /\ lastChange # "none" /\ previous.status = "warning") => result.status = "error"

\* A warning verdict followed, after a hot tool appeared, by an error verdict.
C3_Witness ==
    /\ Ran /\ lastChange = "hot_tool"
    /\ previous.status = "warning" /\ result.status = "error"

\* C8: for each reporting tool, with diff = |actual - target|: while printing
\* with target > 0, diff > 15 gives exactly one deviation error and no
\* deviation warning, 5 < diff <= 15 exactly one deviation warning and no
\* deviation error, diff <= 5 neither; when not printing or target <= 0 the
\* rule gives neither.
C8_DeviationRule ==
    Ran =>
      \A i \in ReportingTools :
        LET t == printer.temperature[i]
            diff == Abs(Value(t.actual) - Value(t.target))
            applies == Printing /\ Value(t.target) > 0
            nErr == CountOf(result.errors, "temperature off by", t.name)
            nWarn == CountOf(result.warnings, "temperature from target", t.name)
        IN  /\ nErr = (IF applies /\ diff > 15 THEN 1 ELSE 0)
            /\ nWarn = (IF applies /\ diff > 5 /\ diff <= 15 THEN 1 ELSE 0)
            /\ CountOf(result.warnings, "temperature off by", t.name) = 0
            /\ CountOf(result.errors, "temperature from target", t.name) = 0

\* While printing: one tool exactly 15 off (a warning), one 16 off (an error).
C8_Witness ==
    /\ Ran /\ Printing
    /\ \E i, j \in ReportingTools :
          /\ Abs(Value(printer.temperature[i].actual) - Value(printer.temperature[i].target)) = 15
          /\ Abs(Value(printer.temperature[j].actual) - Value(printer.temperature[j].target)) = 16
    /\ Len(result.warnings) = 1

\* Position of an error entry in the order the code writes entries: the two
\* flag errors, then per tool (in mapping order) its deviation error followed
\* by its overheating error.
ToolIndex(name) == CHOOSE i \in DOMAIN ToolNames : ToolNames[i] = name
Rank(e) ==
    IF e = ErrorState THEN 0
    ELSE IF e = ClosedOrError THEN 1
    ELSE 2 * ToolIndex(e.tool) + (IF e.rule = "overheating" THEN 1 ELSE 0)

\* C9 as stated: errors are ordered by rule number, so every deviation error
\* precedes every overheating error.
C9_RuleOrder ==
    Ran =>
      \A i, j \in DOMAIN result.errors :
         (result.errors[i].rule = "overheating" /\ result.errors[j].rule = "temperature off by")
            => j < i

\* C9 as amended: errors are ordered error flag, closedOrError, then tool by
\* tool in mapping order, each tool's deviation error directly before its own
\* overheating error.
C9_ToolByToolOrder ==
    Ran =>
      \A i, j \in DOMAIN result.errors :
         i < j => Rank(result.errors[i]) < Rank(result.errors[j])

\* The first tool overheats, the second is off target: the overheating error
\* of the first comes before the deviation error of the second.
C9_Witness ==
    /\ Ran
    /\ \E i, j \in DOMAIN result.errors :
          /\ i < j
          /\ result.errors[i].rule = "overheating"
          /\ result.errors[j].rule = "temperature off by"
    /\ "error" \in printer.flags

\* C10: every reporting tool with actual > 280 gets exactly one overheating
\* error and every other tool none, whatever the flags, the target and the
\* entries the deviation rule wrote for the same tool.
C10_Overheating ==
    Ran =>
      \A i \in ReportingTools :
        LET t == printer.temperature[i]
        IN  CountOf(result.errors, "overheating", t.name)
              = (IF Value(t.actual) > 280 THEN 1 ELSE 0)

\* While printing with the error flag set, one tool has both a deviation
\* error and an overheating error, another a deviation warning and an
\* overheating error.
C10_Witness ==
    /\ Ran /\ Printing /\ "error" \in printer.flags
    /\ \E i, j \in ReportingTools :
          /\ CountOf(result.errors, "temperature off by", printer.temperature[i].name) = 1
          /\ CountOf(result.errors, "overheating", printer.temperature[i].name) = 1
          /\ CountOf(result.warnings, "temperature from target", printer.temperature[j].name) = 1
          /\ CountOf(result.errors, "overheating", printer.temperature[j].name) = 1

\* C11: the verdict carries the stall warning exactly when the printer is
\* printing, completion is 0 and the elapsed print time is above 300 s; it
\* carries none when printing is unset, completion is absent or non-zero, or
\* the elapsed time is absent or at most 300; and never more than one.
C11_StallRule ==
    Ran =>
      CountOf(result.warnings, Stalled.rule, "")
        = (IF /\ Printing
              /\ job.completion = Num(0)
              /\ IsNum(job.printTime) /\ job.printTime.v > 300
             THEN 1 ELSE 0)

\* Printing at 0 % after 301 s: the verdict has the stall warning.
C11_Witness ==
    /\ Ran /\ Printing
    /\ job.completion = Num(0) /\ job.printTime = Num(301)
    /\ CountOf(result.warnings, Stalled.rule, "") = 1

(***************************************************************************)
(* Properties of start_print.                                              *)
(***************************************************************************)
SelectSucceeded ==
    \E i \in DOMAIN requests :
       requests[i].command = "select" /\ Succeeded(requests[i].outcome)
StartSent == \E i \in DOMAIN requests : requests[i].command = "start"

\* C12: the first request of the process is the select of the named file; a
\* start request is only ever issued directly after a select request that
\* succeeded; and when the select did not succeed the process ends with exit
\* status 1, no start request issued and nothing printed.  "Started
\* printing" is printed only after both requests succeeded.
C12_SelectBeforeStart ==
    /\ \A i \in DOMAIN requests :
          requests[i].command = "start" =>
             /\ i = 2
             /\ requests[1].command = "select"
             /\ requests[1].endpoint = FileEndpoint(filepath)
             /\ Succeeded(requests[1].outcome)
    /\ (requests # <<>>) => requests[1].command = "select"
    /\ (spc \in {"exited", "done", "report"} /\ ~SelectSucceeded) =>
          /\ spc = "exited" /\ exit_status = "exit1"
          /\ ~StartSent
          /\ stdout = <<>>
    /\ (stdout # <<>>) =>
          /\ Len(requests) = 2
          /\ \A i \in DOMAIN requests : Succeeded(requests[i].outcome)

\* The select request was answered with an HTTP error: the process has
\* exited after that one request, with nothing printed.
C12_Witness ==
    /\ spc = "exited"
    /\ Len(requests) = 1
    /\ requests[1].command = "select" /\ requests[1].outcome = "http_error"
    /\ stdout = <<>>
    /\ exit_status = "exit1"

====
